---- MODULE Spec2Model ----
(***************************************************************************)
(* State-machine model of the survey analysis tools:                       *)
(*   survey_analyzer.py          SurveyAnalyzer and its Streamlit handlers *)
(*   analyze_questions.py        the stand-alone classification script     *)
(*   survey_analyzer_enhanced.py MaternityAnalyzer and its handlers        *)
(*                                                                         *)
(* Text is modelled as a tuple of one-character strings so that substring  *)
(* search, lower-casing and equality are computed character by character.  *)
(* The letters d-stroke, s-caron and c-acute are written "dj", "sh", "cj"  *)
(* ("DJ", "SH", "CJ" in upper case); each is one character of the text.    *)
(* A cell value is a record: a string, a number or the missing value NaN.  *)
(***************************************************************************)
EXTENDS Integers, Sequences, FiniteSets, TLC

VARIABLES
    df,                     \* the loaded table: column order and cells
    rating_questions,       \* SurveyAnalyzer.rating_questions
    yes_no_questions,       \* SurveyAnalyzer.yes_no_questions
    categorical_questions,  \* SurveyAnalyzer.categorical_questions
    text_questions,         \* SurveyAnalyzer.text_questions
    passes,                 \* number of _categorize_questions passes run
    aq,                     \* the four lists of analyze_questions.py
    built,                  \* a MaternityAnalyzer has been constructed
    key_questions,          \* MaternityAnalyzer.key_questions
    result,                 \* return value of the last analysis method
    ui,                     \* what the last button handler put on the page
    p_in,                   \* a p-value handed to the labelling code
    label,                  \* the interpretation text that came back for it
    text_result             \* return value of the last analyze_text_responses

vars == <<df, rating_questions, yes_no_questions, categorical_questions,
          text_questions, passes, aq, built, key_questions, result, ui,
          p_in, label, text_result>>

(***************************************************************************)
(* Bounds of the model                                                     *)
(***************************************************************************)
MaxFill == 11
MaxPasses == 2
MaxHeaders == 2
MaxPairCount == 3
MaxMissing == 1
MaxRows == 20
PDen == 2000
MaxResponses == 2

(***************************************************************************)
(* Program constants                                                       *)
(***************************************************************************)
SampleSize == 5
YesNoMaxUnique == 3
CategoricalMaxUnique == 10
MinPairedRows == 10

(***************************************************************************)
(* Text                                                                    *)
(***************************************************************************)
T_one == <<"1", " ", "=">>
T_five == <<"5", " ", "=">>
S_Da == <<"D", "a">>
S_Ne == <<"N", "e">>
S_All == <<"A", "l", "l">>

Min(a, b) == IF a <= b THEN a ELSE b

\* Python's `pat in s` on strings
Contains(s, pat) ==
    \E i \in 1..(Len(s) - Len(pat) + 1) : SubSeq(s, i, i + Len(pat) - 1) = pat

DigitChars == <<"0", "1", "2", "3", "4", "5", "6", "7", "8", "9">>

RECURSIVE Digits(_)
Digits(n) ==
    IF n < 10 THEN <<DigitChars[n + 1]>>
    ELSE Digits(n \div 10) \o <<DigitChars[(n % 10) + 1]>>

(***************************************************************************)
(* Cell values                                                             *)
(***************************************************************************)
NaN == [t |-> "nan", s |-> <<>>, n |-> 0]
Str(s) == [t |-> "str", s |-> s, n |-> 0]
Num(n) == [t |-> "num", s |-> <<>>, n |-> n]
Stamp(n) == [t |-> "ts", s |-> <<>>, n |-> n]

\* Python None, for values that are otherwise header texts: a tuple that is
\* no text (its element is not a single character)
None == <<"None">>

notna(v) == v.t # "nan"

\* pandas stores a column of numbers with a missing cell as float64
IsFloatColumn(cells) ==
    /\ \A i \in DOMAIN cells : cells[i].t \in {"num", "nan"}
    /\ \E i \in DOMAIN cells : cells[i].t = "nan"

\* str(val) of a non-missing cell value
PyStr(v, isfloat) ==
    IF v.t = "str" THEN v.s
    ELSE IF isfloat THEN Digits(v.n) \o <<".", "0">>
    ELSE Digits(v.n)

\* str(val) of a non-missing cell of the given column
TextOfCell(v, cells) == PyStr(v, IsFloatColumn(cells))

(***************************************************************************)
(* pandas Series operations                                                *)
(***************************************************************************)
dropna(cells) == SelectSeq(cells, notna)

InSeq(x, s) == \E i \in DOMAIN s : s[i] = x

RECURSIVE UniqueFrom(_, _, _)
UniqueFrom(s, i, acc) ==
    IF i > Len(s) THEN acc
    ELSE UniqueFrom(s, i + 1, IF InSeq(s[i], acc) THEN acc ELSE Append(acc, s[i]))

\* Series.unique(): the distinct values in first-seen order
unique(s) == UniqueFrom(s, 1, <<>>)

\* Series.nunique(): the number of distinct non-missing values
nunique(cells) == Len(unique(dropna(cells)))

Take(s, n) == SubSeq(s, 1, Min(n, Len(s)))

sample_values(cells) == Take(unique(dropna(cells)), SampleSize)

(***************************************************************************)
(* Column classification                                                   *)
(***************************************************************************)
\* the rating rule with the "5 =" alternative lost
RatingRuleOr_mut(sv, isfloat) ==
    \E i \in DOMAIN sv : Contains(PyStr(sv[i], isfloat), T_one)

\* survey_analyzer.py: any("1 =" in str(val) or "5 =" in str(val) ...)
RatingRuleOr(sv, isfloat) ==
    \E i \in DOMAIN sv :
        Contains(PyStr(sv[i], isfloat), T_one) \/ Contains(PyStr(sv[i], isfloat), T_five)

\* analyze_questions.py: any("1 =" in str(val) and "5 =" in str(val) ...)
RatingRuleAnd(sv, isfloat) ==
    \E i \in DOMAIN sv :
        Contains(PyStr(sv[i], isfloat), T_one) /\ Contains(PyStr(sv[i], isfloat), T_five)

\* the yes/no rule with the bound on distinct values off by one
YesNoRule_mut(unique_count, sv, isfloat) ==
    /\ unique_count < YesNoMaxUnique
    /\ \E i \in DOMAIN sv : PyStr(sv[i], isfloat) \in {S_Da, S_Ne}

\* survey_analyzer.py: unique_count <= 3 and any(str(val) in ['Da', 'Ne'] ...)
YesNoRule(unique_count, sv, isfloat) ==
    /\ unique_count <= YesNoMaxUnique
    /\ \E i \in DOMAIN sv : PyStr(sv[i], isfloat) \in {S_Da, S_Ne}

\* the script's yes/no rule with the bound on distinct values off by one
YesNoRuleScript_mut(unique_values, sv) ==
    /\ unique_values < YesNoMaxUnique
    /\ \E i \in DOMAIN sv : notna(sv[i]) /\ sv[i] \in {Str(S_Da), Str(S_Ne)}

\* analyze_questions.py: unique_values <= 3 and
\*   any(val in ['Da', 'Ne'] for val in sample_values if pd.notna(val))
YesNoRuleScript(unique_values, sv) ==
    /\ unique_values <= YesNoMaxUnique
    /\ \E i \in DOMAIN sv : notna(sv[i]) /\ sv[i] \in {Str(S_Da), Str(S_Ne)}

\* the categorical rule with the bound on distinct values off by one
CategoricalRule_mut(unique_count) == unique_count < CategoricalMaxUnique

\* unique_count <= 10, in both classifiers
CategoricalRule(unique_count) == unique_count <= CategoricalMaxUnique

\* the if/elif cascade of SurveyAnalyzer._categorize_questions for one column
SurveyCategory(cells) ==
    LET unique_count == nunique(cells)
        sv == sample_values(cells)
        fl == IsFloatColumn(cells)
    IN  IF RatingRuleOr(sv, fl) THEN "rating"
        ELSE IF YesNoRule(unique_count, sv, fl) THEN "yes_no"
        ELSE IF CategoricalRule(unique_count) THEN "categorical"
        ELSE "text"

\* the if/elif cascade of analyze_questions.py for one column
ScriptCategory(cells) ==
    LET unique_values == nunique(cells)
        sv == sample_values(cells)
        fl == IsFloatColumn(cells)
    IN  IF RatingRuleAnd(sv, fl) THEN "rating"
        ELSE IF YesNoRuleScript(unique_values, sv) THEN "yes_no"
        ELSE IF CategoricalRule(unique_values) THEN "categorical"
        ELSE "text"

EmptyLists == [rating |-> <<>>, yes_no |-> <<>>, categorical |-> <<>>, text |-> <<>>]

\* index (1-based) of the first column the classification loops visit:
\* df.columns[1:] skips the timestamp
FirstQuestion == 2

\* for col in self.df.columns[1:]: ... self.<list>.append(col)
RECURSIVE CategorizeLoop(_, _, _)
CategorizeLoop(d, i, L) ==
    IF i > Len(d.columns) THEN L
    ELSE LET col == d.columns[i]
             cat == SurveyCategory(d.data[col])
         IN  CategorizeLoop(d, i + 1, [L EXCEPT ![cat] = Append(@, col)])

\* the pass with the timestamp column not skipped
categorize_questions_mut(d, L) == CategorizeLoop(d, 1, L)

\* SurveyAnalyzer._categorize_questions, appending to the lists L it finds
categorize_questions(d, L) == CategorizeLoop(d, FirstQuestion, L)

\* for i, col in enumerate(df.columns[1:], 1): ... <list>.append((i, col, ...))
RECURSIVE ScriptLoop(_, _, _)
ScriptLoop(d, i, L) ==
    IF i > Len(d.columns) THEN L
    ELSE LET col == d.columns[i]
             cat == ScriptCategory(d.data[col])
             entry == <<i - 1, col, nunique(d.data[col]), sample_values(d.data[col])>>
         IN  ScriptLoop(d, i + 1, [L EXCEPT ![cat] = Append(@, entry)])

(***************************************************************************)
(* pd.crosstab                                                             *)
(***************************************************************************)
\* the characters of cell texts, in code-point order
Alphabet == <<" ", "!", ",", ".", "0", "1", "2", "3", "4", "5", "6", "7", "8",
              "9", "=", "A", "D", "N", "a", "b", "e", "l", "p", "q", "x", "y">>

CharRank(c) == CHOOSE i \in DOMAIN Alphabet : Alphabet[i] = c

RECURSIVE TextLess(_, _)
TextLess(s, u) ==
    IF u = <<>> THEN FALSE
    ELSE IF s = <<>> THEN TRUE
    ELSE IF Head(s) = Head(u) THEN TextLess(Tail(s), Tail(u))
    ELSE CharRank(Head(s)) < CharRank(Head(u))

\* the order in which crosstab lays out its keys: numbers, then texts
ValueLess(u, v) ==
    IF u.t = "str" /\ v.t = "str" THEN TextLess(u.s, v.s)
    ELSE IF u.t = "str" \/ v.t = "str" THEN v.t = "str" /\ u.t # "str"
    ELSE u.n < v.n

RECURSIVE SortValues(_)
SortValues(S) ==
    IF S = {} THEN <<>>
    ELSE LET m == CHOOSE u \in S : \A v \in S \ {u} : ValueLess(u, v)
         IN  <<m>> \o SortValues(S \ {m})

SeqToSet(s) == {s[i] : i \in DOMAIN s}

\* rows of two aligned columns in which neither cell is missing
PairedRows(a, b) == {i \in DOMAIN a : notna(a[i]) /\ notna(b[i])}

PairCount(a, b, u, v) == Cardinality({i \in PairedRows(a, b) : a[i] = u /\ b[i] = v})

\* pd.crosstab(a, b): counts over the paired-complete rows, keys sorted
crosstab(a, b) ==
    LET P == PairedRows(a, b)
        idx == SortValues({a[i] : i \in P})
        cols == SortValues({b[i] : i \in P})
    IN  [index |-> idx, columns |-> cols,
         cell |-> [k \in SeqToSet(idx) \X SeqToSet(cols) |-> PairCount(a, b, k[1], k[2])]]

All == Str(S_All)

\* pd.crosstab(a, b, margins=True): the same table with an 'All' row and an
\* 'All' column of totals appended
crosstab_margins(a, b) ==
    LET t == crosstab(a, b)
        P == PairedRows(a, b)
        idx == Append(t.index, All)
        cols == Append(t.columns, All)
    IN  [index |-> idx, columns |-> cols,
         cell |-> [k \in SeqToSet(idx) \X SeqToSet(cols) |->
                     IF k[1] = All /\ k[2] = All THEN Cardinality(P)
                     ELSE IF k[1] = All THEN Cardinality({i \in P : b[i] = k[2]})
                     ELSE IF k[2] = All THEN Cardinality({i \in P : a[i] = k[1]})
                     ELSE t.cell[k]]]

DropLast(s) == SubSeq(s, 1, Len(s) - 1)

\* table.iloc[:-1, :-1]
iloc_drop_last(t) ==
    LET idx == DropLast(t.index)
        cols == DropLast(t.columns)
    IN  [index |-> idx, columns |-> cols,
         cell |-> [k \in SeqToSet(idx) \X SeqToSet(cols) |-> t.cell[k]]]

NoTable == [index |-> <<>>, columns |-> <<>>, cell |-> [k \in {} |-> 0]]

(***************************************************************************)
(* Datasets the survey classifier is run on                                *)
(***************************************************************************)
H_ts == <<"T", "i", "m", "e", "s", "t", "a", "m", "p">>
Q(i) == <<"Q">> \o Digits(i)

R1 == T_one \o <<" ", "a">>
R5 == <<"b", " ">> \o T_five
R15 == T_one \o <<" ", "a", ",", " ">> \o T_five \o <<" ", "b">>
NearMiss == <<"D", "a", ",", "1", "=", "5", "=">>

HeadVocab == {NaN, Str(S_Da), Str(S_Ne), Str(R1), Str(R5), Str(R15), Str(NearMiss)}

\* no cell, or one cell drawn from the vocabulary
OptionalCell == {<<>>} \cup {<<v>> : v \in HeadVocab}

Fillers(k) == [i \in 1..k |-> Num(i)]

\* a question column: an optional cell, a run of distinct numeric answers,
\* an optional cell
MainColumns ==
    {h \o Fillers(k) \o t : h \in OptionalCell, t \in OptionalCell, k \in 0..MaxFill}

CompanionColumns ==
    { <<Str(S_Da), Str(S_Ne), NaN>>, <<Str(R5)>>, Fillers(4),
      Fillers(CategoricalMaxUnique + 1), <<>> }

Pad(cells, n) == cells \o [i \in 1..(n - Len(cells)) |-> NaN]

RECURSIVE MaxLen(_)
MaxLen(cols) ==
    IF cols = <<>> THEN 0
    ELSE LET m == MaxLen(Tail(cols))
         IN  IF Len(Head(cols)) >= m THEN Len(Head(cols)) ELSE m

\* a table with a timestamp column followed by the given question columns
\* under the given headers, all padded to the same number of rows
MakeDf(names, cols) ==
    LET n == MaxLen(cols)
        hs == <<H_ts>> \o names
    IN  [columns |-> hs,
         data |-> [h \in SeqToSet(hs) |->
                     IF h = H_ts THEN [i \in 1..n |-> Stamp(i)]
                     ELSE LET j == CHOOSE j \in DOMAIN names : names[j] = h
                          IN  Pad(cols[j], n)]]

SurveyDatasets ==
    {MakeDf(<<>>, <<>>)}
        \cup {MakeDf(<<Q(1)>>, <<c>>) : c \in MainColumns}
        \cup {MakeDf(<<Q(1), Q(2)>>, <<c, k>>) : c \in MainColumns, k \in CompanionColumns}

(***************************************************************************)
(* State before any analyzer is built                                      *)
(***************************************************************************)
NotRun == [ran |-> FALSE, lists |-> EmptyLists]
NotBuilt == [k \in {} |-> None]

\* a float is modelled as the exact fraction num/den, den > 0; None is a
\* number-shaped value of its own
Rat(n, d) == [none |-> FALSE, num |-> n, den |-> d]
NoneNumber == [none |-> TRUE, num |-> 0, den |-> 1]
Less(x, y) == x.num * y.den < y.num * x.den

RECURSIVE Gcd(_, _)
Gcd(m, n) == IF n = 0 THEN m ELSE Gcd(n, m % n)
\* the fraction in lowest terms, so that equal numbers are equal records
Reduced(n, d) == LET g == Gcd(n, d) IN Rat(n \div g, d \div g)

NoLabel == [by |-> "none", text |-> ""]
NoCount == [none |-> TRUE, n |-> 0]
NoTextResult == [column |-> None, image |-> "none", count |-> NoCount,
                 cleaned_text |-> <<>>]

NoResult == [call |-> "none", kind |-> "none", crosstab |-> NoTable,
             pct |-> NoTable, figure |-> NoTable, stat |-> "none",
             chi2 |-> NoneNumber, p_value |-> NoneNumber, dof |-> 0,
             interpretation |-> ""]
NoUi == [handler |-> "none", var1 |-> None, var2 |-> None, out |-> <<>>,
         table |-> NoTable]

InitRest ==
    /\ rating_questions = <<>>
    /\ yes_no_questions = <<>>
    /\ categorical_questions = <<>>
    /\ text_questions = <<>>
    /\ passes = 0
    /\ aq = NotRun
    /\ built = FALSE
    /\ key_questions = NotBuilt
    /\ result = NoResult
    /\ ui = NoUi
    /\ p_in = NoneNumber
    /\ label = NoLabel
    /\ text_result = NoTextResult

InitSurvey == df \in SurveyDatasets /\ InitRest

(***************************************************************************)
(* survey_analyzer.py                                                      *)
(***************************************************************************)
Lists == [rating |-> rating_questions, yes_no |-> yes_no_questions,
          categorical |-> categorical_questions, text |-> text_questions]

SetLists(L) ==
    /\ rating_questions' = L.rating
    /\ yes_no_questions' = L.yes_no
    /\ categorical_questions' = L.categorical
    /\ text_questions' = L.text

\* analyzer = SurveyAnalyzer(df): __init__ empties the four lists and runs
\* the classification pass
SurveyAnalyzerInit ==
    /\ passes = 0
    /\ SetLists(categorize_questions(df, EmptyLists))
    /\ passes' = 1
    /\ UNCHANGED <<df, p_in, label, text_result, aq, built, key_questions, result, ui>>

\* analyzer._categorize_questions() called again on the built analyzer
CategorizeAgain ==
    /\ passes >= 1
    /\ passes < MaxPasses
    /\ SetLists(categorize_questions(df, Lists))
    /\ passes' = passes + 1
    /\ UNCHANGED <<df, p_in, label, text_result, aq, built, key_questions, result, ui>>

\* st.selectbox over the options: one of them, or None when there is none
SelectOptions(options) == IF options = <<>> THEN {None} ELSE SeqToSet(options)

\* SurveyAnalyzer.create_cross_analysis: the guard that decides between a
\* figure and None (None and the empty text are falsy)
Truthy(var) == var # None /\ var # <<>>
CrossGuard(var1, var2) == Truthy(var1) /\ Truthy(var2) /\ var1 # var2

\* the table create_cross_analysis draws: the crosstab with margins, the
\* margins removed again
CrossFigureTable(d, var1, var2) ==
    iloc_drop_last(crosstab_margins(d.data[var1], d.data[var2]))

\* "Generate Cross Analysis" pressed with the two selections.  When the guard
\* passes, the figure is built with plotly calls whose outcome is decided by
\* the installed plotly (fig.update_xaxis): either the figure is returned
\* and drawn, or the call raises and main's except reports the error.
CrossAnalysisButton ==
    /\ passes >= 1
    /\ \E var1 \in SelectOptions(categorical_questions \o yes_no_questions),
          var2 \in SelectOptions(categorical_questions \o yes_no_questions) :
         IF CrossGuard(var1, var2)
         THEN \E raised \in BOOLEAN :
                 ui' = [handler |-> "cross", var1 |-> var1, var2 |-> var2,
                        out |-> IF raised THEN <<"error", "info">> ELSE <<"plotly_chart">>,
                        table |-> IF raised THEN NoTable
                                  ELSE CrossFigureTable(df, var1, var2)]
         ELSE ui' = [handler |-> "cross", var1 |-> var1, var2 |-> var2,
                     out |-> <<"warning">>, table |-> NoTable]
    /\ UNCHANGED <<df, p_in, label, text_result, rating_questions, yes_no_questions, categorical_questions,
                   text_questions, passes, aq, built, key_questions, result>>

(***************************************************************************)
(* analyze_questions.py                                                    *)
(***************************************************************************)
\* the whole script: the four lists start empty and the loop fills them
AnalyzeQuestionsScript ==
    /\ ~aq.ran
    /\ aq' = [ran |-> TRUE, lists |-> ScriptLoop(df, FirstQuestion, EmptyLists)]
    /\ UNCHANGED <<df, p_in, label, text_result, rating_questions, yes_no_questions, categorical_questions,
                   text_questions, passes, built, key_questions, result, ui>>

NextSurvey ==
    \/ SurveyAnalyzerInit
    \/ CategorizeAgain
    \/ CrossAnalysisButton
    \/ AnalyzeQuestionsScript

SpecSurvey == InitSurvey /\ [][NextSurvey]_vars

(***************************************************************************)
(* survey_analyzer_enhanced.py: key questions                              *)
(***************************************************************************)
UpperChars == <<"A", "B", "C", "D", "E", "F", "G", "H", "I", "J", "K", "L", "M",
                "N", "O", "P", "Q", "R", "S", "T", "U", "V", "W", "X", "Y", "Z",
                "DJ", "SH", "CJ">>
LowerChars == <<"a", "b", "c", "d", "e", "f", "g", "h", "i", "j", "k", "l", "m",
                "n", "o", "p", "q", "r", "s", "t", "u", "v", "w", "x", "y", "z",
                "dj", "sh", "cj">>

LowerChar(c) ==
    IF \E i \in DOMAIN UpperChars : UpperChars[i] = c
    THEN LowerChars[CHOOSE i \in DOMAIN UpperChars : UpperChars[i] = c]
    ELSE c

\* str.lower()
lower(s) == [i \in DOMAIN s |-> LowerChar(s[i])]

K_obrazovan == <<"o", "b", "r", "a", "z", "o", "v", "a", "n">>
K_iskustvo == <<"i", "s", "k", "u", "s", "t", "v", "o", " ", "p", "o", "r", "o", "dj", "a", "j", "a">>
K_oceni == <<"o", "c", "e", "n", "i">>
K_anks == <<"a", "n", "k", "s", "i", "o", "z", "n", "o", "s", "t", "i", ",", " ", "s", "t", "r", "a", "h", "a">>
K_porodjaj == <<"p", "o", "r", "o", "dj", "a", "j">>
K_postp == <<"p", "o", "s", "t", "p", "o", "r", "o", "dj", "a", "j", "n", "e", " ", "d", "e", "p", "r", "e", "s", "i", "j", "e">>
K_simptome == <<"s", "i", "m", "p", "t", "o", "m", "e">>
K_emoc == <<"e", "m", "o", "c", "i", "j", "a", "m", "a", " ", "i", " ", "t", "e", "sh", "k", "o", "cj", "a", "m", "a">>
K_sakim == <<"s", "a", " ", "k", "i", "m">>
K_josdece == <<"j", "o", "sh", " ", "d", "e", "c", "e">>
K_odluk == <<"o", "d", "l", "u", "k">>
K_partner == <<"p", "a", "r", "t", "n", "e", "r", " ", "r", "a", "z", "u", "m", "e">>

\* the roles, in the order their keys are first inserted into the dict
RoleOrder == <<"education", "birth_satisfaction", "anxiety_during_birth",
               "postpartum_depression", "mental_health_support",
               "future_children_desire", "partner_support">>
Roles == SeqToSet(RoleOrder)

\* the keyword test each role applies to a header
RolePredicate(role, col) ==
    LET h == lower(col)
    IN  CASE role = "education" -> Contains(h, K_obrazovan)
          [] role = "birth_satisfaction" -> Contains(h, K_iskustvo) /\ Contains(h, K_oceni)
          [] role = "anxiety_during_birth" -> Contains(h, K_anks) /\ Contains(h, K_porodjaj)
          [] role = "postpartum_depression" -> Contains(h, K_postp) /\ Contains(h, K_simptome)
          [] role = "mental_health_support" -> Contains(h, K_emoc) /\ Contains(h, K_sakim)
          [] role = "future_children_desire" -> Contains(h, K_josdece) /\ Contains(h, K_odluk)
          [] role = "partner_support" -> Contains(h, K_partner)

\* questions[key] = value
Assign(q, key, value) == [k \in (DOMAIN q) \cup {key} |-> IF k = key THEN value ELSE q[k]]

\* [col for col in self.df.columns if <predicate of role>]
MatchingCols(d, role) ==
    LET Test(col) == RolePredicate(role, col)
    IN  SelectSeq(d.columns, Test)

\* the binding left out of the dict when no header matches
BindFirst_mut(q, role, matches) ==
    IF matches # <<>> THEN Assign(q, role, matches[1]) ELSE q

\* questions[role] = cols[0] if cols else None
BindFirst(q, role, matches) ==
    Assign(q, role, IF matches # <<>> THEN matches[1] ELSE None)

\* for col in self.df.columns: if ... elif ... elif ...
RECURSIVE MentalHealthLoop(_, _, _)
MentalHealthLoop(cols, i, q) ==
    IF i > Len(cols) THEN q
    ELSE LET col == cols[i]
         IN  MentalHealthLoop(cols, i + 1,
                 IF RolePredicate("anxiety_during_birth", col)
                 THEN Assign(q, "anxiety_during_birth", col)
                 ELSE IF RolePredicate("postpartum_depression", col)
                 THEN Assign(q, "postpartum_depression", col)
                 ELSE IF RolePredicate("mental_health_support", col)
                 THEN Assign(q, "mental_health_support", col)
                 ELSE q)

\* MaternityAnalyzer._identify_key_questions
identify_key_questions(d) ==
    LET q0 == [k \in {} |-> None]
        q1 == BindFirst(q0, "education", MatchingCols(d, "education"))
        q2 == BindFirst(q1, "birth_satisfaction", MatchingCols(d, "birth_satisfaction"))
        q3 == Assign(Assign(Assign(q2, "anxiety_during_birth", None),
                            "postpartum_depression", None),
                     "mental_health_support", None)
        q4 == MentalHealthLoop(d.columns, 1, q3)
        q5 == BindFirst(q4, "future_children_desire", MatchingCols(d, "future_children_desire"))
    IN  BindFirst(q5, "partner_support", MatchingCols(d, "partner_support"))

(***************************************************************************)
(* Datasets the maternity analyzer is run on                               *)
(***************************************************************************)
Sp == <<" ">>
H_edu == <<"N", "i", "v", "o", " ">> \o K_obrazovan \o <<"j", "a">>
H_EDU == <<"O", "B", "R", "A", "Z", "O", "V", "A", "N", "J", "E">>
H_sat == <<"O", "c", "e", "n", "i", " ">> \o K_iskustvo
H_half == K_iskustvo
H_anx == K_anks \o Sp \o K_porodjaj
H_ANX == <<"P", "o", "r", "o", "dj", "a", "j", ":", " ">> \o K_anks
H_ppd == K_simptome \o Sp \o K_postp
H_anxppd == K_anks \o Sp \o K_simptome \o Sp \o K_postp
H_ppdsup == K_postp \o Sp \o K_simptome \o Sp \o K_emoc \o Sp \o K_sakim
H_sup == <<"S", "a", " ", "k", "i", "m", " ">> \o K_emoc
H_fut == K_odluk \o <<"a">> \o Sp \o K_josdece
H_par == <<"P", "a", "r", "t", "n", "e", "r", " ", "R", "a", "z", "u", "m", "e">>
H_par2 == K_partner \o <<" ", "t", "e">>

HeaderPool == {H_edu, H_EDU, H_sat, H_half, H_anx, H_ANX, H_ppd, H_anxppd,
               H_ppdsup, H_sup, H_fut, H_par, H_par2}

\* sequences of distinct headers
DistinctSeqs(S, n) ==
    {hs \in [1..n -> S] : \A i, j \in 1..n : i # j => hs[i] # hs[j]}

\* a table of headers without rows
HeaderDatasets ==
    {MakeDf(hs, [i \in DOMAIN hs |-> <<>>]) :
        hs \in UNION {DistinctSeqs(HeaderPool, n) : n \in 0..MaxHeaders}}

X == Str(<<"x">>)
Y == Str(<<"y">>)
P == Str(<<"p">>)
Qv == Str(<<"q">>)

Repeat(row, n) == [i \in 1..n |-> row]

\* rows of a two-question table: m rows of each way a cell can be missing,
\* then the given number of rows of each of the four value pairs
PairRows(m, nxp, nxq, nyp, nyq) ==
    Repeat(<<NaN, P>>, m) \o Repeat(<<X, NaN>>, m) \o Repeat(<<NaN, NaN>>, m)
        \o Repeat(<<X, P>>, nxp) \o Repeat(<<Y, Qv>>, nyq)
        \o Repeat(<<X, Qv>>, nxq) \o Repeat(<<Y, P>>, nyp)

HeaderPairs == {<<H_edu, H_sat>>, <<H_ppd, H_fut>>, <<H_par, H_anx>>}

PairDatasets ==
    {LET rows == PairRows(m, nxp, nxq, nyp, nyq)
     IN  MakeDf(hp, <<[i \in DOMAIN rows |-> rows[i][1]], [i \in DOMAIN rows |-> rows[i][2]]>>) :
        hp \in HeaderPairs, m \in 0..MaxMissing,
        nxp \in 0..MaxPairCount, nxq \in 0..MaxPairCount,
        nyp \in 0..MaxPairCount, nyq \in 0..MaxPairCount}

\* rows of a two-question table of n complete rows holding two value pairs:
\* k rows of <<x, p>> and n - k rows of a second pair, which differs from
\* the first in both values, in the second value only or in the first only
TwoCellShapes == {"determined", "one_row", "one_column"}
TwoCellRows(shape, k, n) ==
    Repeat(<<X, P>>, k)
        \o Repeat(CASE shape = "determined" -> <<Y, Qv>>
                    [] shape = "one_row" -> <<X, Qv>>
                    [] shape = "one_column" -> <<Y, P>>, n - k)

TwoCellDatasets ==
    UNION {{LET rows == TwoCellRows(shape, k, n)
            IN  MakeDf(hp, <<[i \in DOMAIN rows |-> rows[i][1]],
                             [i \in DOMAIN rows |-> rows[i][2]]>>) :
               hp \in HeaderPairs, shape \in TwoCellShapes, k \in 0..n} :
           n \in (MinPairedRows - 1)..MaxRows}

InitMaternity ==
    df \in (HeaderDatasets \cup PairDatasets \cup TwoCellDatasets) /\ InitRest

(***************************************************************************)
(* survey_analyzer_enhanced.py: analyses                                   *)
(***************************************************************************)
\* pd.crosstab(a, b, normalize='index') * 100: each cell as the fraction
\* <<100 * count, row total>>
crosstab_pct(a, b) ==
    LET t == crosstab(a, b)
    IN  [index |-> t.index, columns |-> t.columns,
         cell |-> [k \in DOMAIN t.cell |->
                     <<100 * t.cell[k], Cardinality({i \in PairedRows(a, b) : a[i] = k[1]})>>]]

\* df[[c1, c2]].dropna(): the rows in which both cells are present
dropna_pair(d, c1, c2) ==
    LET keep == SelectSeq([i \in DOMAIN d.data[c1] |-> i],
                          LAMBDA i : notna(d.data[c1][i]) /\ notna(d.data[c2][i]))
    IN  [a |-> [i \in DOMAIN keep |-> d.data[c1][keep[i]]],
         b |-> [i \in DOMAIN keep |-> d.data[c2][keep[i]]]]

RECURSIVE SumCells(_, _)
SumCells(f, S) ==
    IF S = {} THEN 0
    ELSE LET k == CHOOSE k \in S : TRUE IN f[k] + SumCells(f, S \ {k})

\* MaternityAnalyzer._interpret_p_value
VeryStrongCut == Rat(1, 1000)
StrongCut == Rat(1, 100)
SignificantCut == Rat(5, 100)
MarginalCut == Rat(1, 10)
L_Cannot == "Cannot calculate statistical significance"
L_VeryStrong == "Very strong statistical relationship (p < 0.001)"
L_Strong == "Strong statistical relationship (p < 0.01)"
L_Significant == "Statistically significant relationship (p < 0.05)"
L_Marginal == "Marginally significant trend (p < 0.1)"
L_NoRelation == "No significant statistical relationship found"
L_Insufficient == "Insufficient data for statistical analysis"

interpret_p_value_mut(p_value) ==
    IF p_value.none THEN L_Cannot
    ELSE IF ~Less(VeryStrongCut, p_value) THEN L_VeryStrong
    ELSE IF Less(p_value, StrongCut) THEN L_Strong
    ELSE IF Less(p_value, SignificantCut) THEN L_Significant
    ELSE IF Less(p_value, MarginalCut) THEN L_Marginal
    ELSE L_NoRelation

interpret_p_value(p_value) ==
    IF p_value.none THEN L_Cannot
    ELSE IF Less(p_value, VeryStrongCut) THEN L_VeryStrong
    ELSE IF Less(p_value, StrongCut) THEN L_Strong
    ELSE IF Less(p_value, SignificantCut) THEN L_Significant
    ELSE IF Less(p_value, MarginalCut) THEN L_Marginal
    ELSE L_NoRelation

\* the truth value Python gives a number or None: None and 0.0 are falsy
TruthyNumber(x) == ~x.none /\ x.num # 0

\* the 'interpretation' entry of analyze_mental_health_vs_future_children:
\* self._interpret_p_value(p_value) if p_value else "Insufficient data ..."
MentalInterpretation(p_value) ==
    IF TruthyNumber(p_value) THEN interpret_p_value(p_value) ELSE L_Insufficient

\* scipy.stats.chi2_contingency as the analyses call it (correction=True,
\* the default).  Row and column totals of the table of counts:
RowSum(t, r) == SumCells(t.cell, {k \in DOMAIN t.cell : k[1] = r})
ColSum(t, c) == SumCells(t.cell, {k \in DOMAIN t.cell : k[2] = c})

RECURSIVE ProductOver(_, _)
ProductOver(f, S) ==
    IF S = {} THEN 1
    ELSE LET k == CHOOSE k \in S : TRUE IN f[k] * ProductOver(f, S \ {k})

Abs(n) == IF n < 0 THEN -n ELSE n

\* |observed - expected| of a cell in units of 1/(2N), expected being
\* row total * column total / N; with one degree of freedom each observed
\* count is first moved towards its expected value by min(0.5, the
\* distance) (Yates' correction for continuity)
Deviation(t, k, N, dof) ==
    LET d == 2 * Abs(t.cell[k] * N - RowSum(t, k[1]) * ColSum(t, k[2]))
    IN  IF dof = 1 THEN (IF d > N THEN d - N ELSE 0) ELSE d

\* floor(10^4 * x) of a non-negative fraction, by long division
RECURSIVE ShiftDigits(_, _, _, _)
ShiftDigits(acc, r, den, k) ==
    IF k = 0 THEN acc
    ELSE ShiftDigits(10 * acc + (10 * r) \div den, (10 * r) % den, den, k - 1)
TenThousandths(x) == ShiftDigits(x.num \div x.den, x.num % x.den, x.den, 4)

\* floor(10^4 * c) of the statistic c of the chi-square distribution with
\* one degree of freedom at which the survival function equals 0.001,
\* 0.01, 0.05 and 0.1
CriticalValues == <<108275, 66348, 38414, 27055>>

\* chi2.sf(x, 1), known up to the cut points of _interpret_p_value: 1 at
\* x = 0, else a value inside the band the p-value lies in
chi2_sf(x) ==
    LET v == TenThousandths(x)
    IN  IF x.num = 0 THEN Rat(1, 1)
        ELSE IF v > CriticalValues[1] THEN Rat(1, 2000)
        ELSE IF v > CriticalValues[2] THEN Rat(5, 1000)
        ELSE IF v > CriticalValues[3] THEN Rat(3, 100)
        ELSE IF v > CriticalValues[4] THEN Rat(7, 100)
        ELSE Rat(1, 2)

\* chi2, p, dof of chi2_contingency(t) for a table with at least one cell of
\* at most two rows and two columns: a table with no degree of freedom
\* gives chi2 = 0.0 and p = 1.0
chi2_contingency(t) ==
    LET N == SumCells(t.cell, DOMAIN t.cell)
        dof == (Len(t.index) - 1) * (Len(t.columns) - 1)
        rows == [r \in SeqToSet(t.index) |-> RowSum(t, r)]
        cols == [c \in SeqToSet(t.columns) |-> ColSum(t, c)]
        R == ProductOver(rows, DOMAIN rows)
        C == ProductOver(cols, DOMAIN cols)
        term == [k \in DOMAIN t.cell |->
                   Deviation(t, k, N, dof) * Deviation(t, k, N, dof)
                       * (R \div rows[k[1]]) * (C \div cols[k[2]])]
        chi2 == Reduced(SumCells(term, DOMAIN term), 4 * N * R * C)
    IN  IF dof = 0
        THEN [stat |-> "computed", chi2 |-> Rat(0, 1), p_value |-> Rat(1, 1), dof |-> 0]
        ELSE [stat |-> "computed", chi2 |-> chi2, p_value |-> chi2_sf(chi2), dof |-> dof]

\* chi2, p_value = None, None
NoTest == [stat |-> "None", chi2 |-> NoneNumber, p_value |-> NoneNumber, dof |-> 0]

\* self.df after df_clean = self.df[[c1, c2]].dropna(): the selection and
\* dropna (inplace=False) build new frames, the analyzer's table is kept
self_df_after_dropna_mut(d, c1, c2) ==
    LET keep == SelectSeq([i \in DOMAIN d.data[c1] |-> i],
                          LAMBDA i : notna(d.data[c1][i]) /\ notna(d.data[c2][i]))
    IN  [columns |-> d.columns,
         data |-> [h \in DOMAIN d.data |-> [i \in DOMAIN keep |-> d.data[h][keep[i]]]]]

self_df_after_dropna(d, c1, c2) == d

Returned(call, ct, pct, fig, test, interpretation) ==
    [call |-> call, kind |-> "dict", crosstab |-> ct, pct |-> pct,
     figure |-> fig, stat |-> test.stat, chi2 |-> test.chi2,
     p_value |-> test.p_value, dof |-> test.dof,
     interpretation |-> interpretation]
ReturnedNone(call) == [NoResult EXCEPT !.call = call, !.kind = "None"]
Raised(call) == [NoResult EXCEPT !.call = call, !.kind = "raise"]

\* a key question is falsy when it is None (or the empty text)
Unbound(role) == ~Truthy(key_questions[role])

\* analyzer = MaternityAnalyzer(df)
MaternityAnalyzerInit ==
    /\ ~built
    /\ built' = TRUE
    /\ key_questions' = identify_key_questions(df)
    /\ UNCHANGED <<df, p_in, label, text_result, rating_questions, yes_no_questions, categorical_questions,
                   text_questions, passes, aq, result, ui>>

\* MaternityAnalyzer.analyze_education_vs_satisfaction: the crosstab keeps
\* its margins in the returned dict; chi2_contingency raises on a table
\* without cells
AnalyzeEducationVsSatisfaction ==
    /\ built
    /\ LET call == "analyze_education_vs_satisfaction"
       IN  IF Unbound("education") \/ Unbound("birth_satisfaction")
           THEN result' = ReturnedNone(call)
           ELSE LET a == df.data[key_questions["education"]]
                    b == df.data[key_questions["birth_satisfaction"]]
                    cross_tab == crosstab_margins(a, b)
                    cross_tab_pct == crosstab_pct(a, b)
                IN  IF PairedRows(a, b) = {}
                    THEN result' = Raised(call)
                    ELSE LET test == chi2_contingency(iloc_drop_last(cross_tab))
                         IN  result' = Returned(call, cross_tab, cross_tab_pct,
                                                iloc_drop_last(cross_tab_pct), test,
                                                interpret_p_value(test.p_value))
    /\ UNCHANGED <<df, p_in, label, text_result, rating_questions, yes_no_questions, categorical_questions,
                   text_questions, passes, aq, built, key_questions, ui>>

\* the body shared by the two analyses that first clean the data
CleanedAnalysis(call, c1, c2, guarded) ==
    LET df_clean == dropna_pair(df, c1, c2)
        cross_tab == crosstab(df_clean.a, df_clean.b)
        cross_tab_pct == crosstab_pct(df_clean.a, df_clean.b)
        test == IF guarded /\ ~(Len(cross_tab.index) > 1 /\ Len(cross_tab.columns) > 1)
                THEN NoTest ELSE chi2_contingency(cross_tab)
    IN  IF Len(df_clean.a) < MinPairedRows
        THEN ReturnedNone(call)
        ELSE Returned(call, cross_tab, cross_tab_pct, cross_tab_pct, test,
                      IF guarded THEN MentalInterpretation(test.p_value)
                      ELSE interpret_p_value(test.p_value))

\* MaternityAnalyzer.analyze_mental_health_vs_future_children
AnalyzeMentalHealthVsFutureChildren ==
    /\ built
    /\ LET call == "analyze_mental_health_vs_future_children"
       IN  IF Unbound("postpartum_depression") \/ Unbound("future_children_desire")
           THEN result' = ReturnedNone(call) /\ df' = df
           ELSE /\ result' = CleanedAnalysis(call, key_questions["postpartum_depression"],
                                             key_questions["future_children_desire"], TRUE)
                /\ df' = self_df_after_dropna(df, key_questions["postpartum_depression"],
                                              key_questions["future_children_desire"])
    /\ UNCHANGED <<p_in, label, text_result, rating_questions, yes_no_questions, categorical_questions,
                   text_questions, passes, aq, built, key_questions, ui>>

\* MaternityAnalyzer.analyze_support_vs_mental_health
AnalyzeSupportVsMentalHealth ==
    /\ built
    /\ LET call == "analyze_support_vs_mental_health"
       IN  IF Unbound("partner_support") \/ Unbound("anxiety_during_birth")
           THEN result' = ReturnedNone(call) /\ df' = df
           ELSE /\ result' = CleanedAnalysis(call, key_questions["partner_support"],
                                             key_questions["anxiety_during_birth"], FALSE)
                /\ df' = self_df_after_dropna(df, key_questions["partner_support"],
                                              key_questions["anxiety_during_birth"])
    /\ UNCHANGED <<p_in, label, text_result, rating_questions, yes_no_questions, categorical_questions,
                   text_questions, passes, aq, built, key_questions, ui>>

\* [q for q in analyzer.key_questions.values() if q and q in df.columns]
available_vars ==
    LET vals == [i \in DOMAIN RoleOrder |-> key_questions[RoleOrder[i]]]
    IN  SelectSeq(vals, LAMBDA q : Truthy(q) /\ InSeq(q, df.columns))

\* "Analyze Relationship" pressed in the Key Relationships tab with the two
\* selections: the branch for different variables draws the chart, runs
\* chi2_contingency (which raises on a table without cells, reported by
\* main's except) and shows the table; there is no branch for equal ones
KeyRelationshipButton ==
    /\ built
    /\ Len(available_vars) >= 2
    /\ \E var1 \in SeqToSet(available_vars), var2 \in SeqToSet(available_vars) :
         IF var1 # var2
         THEN LET cross_tab == crosstab(df.data[var1], df.data[var2])
              IN  ui' = [handler |-> "relationship", var1 |-> var1, var2 |-> var2,
                         out |-> IF cross_tab.index = <<>>
                                 THEN <<"plotly_chart", "error", "info">>
                                 ELSE <<"plotly_chart", "write", "dataframe">>,
                         table |-> IF cross_tab.index = <<>> THEN NoTable ELSE cross_tab]
         ELSE ui' = [handler |-> "relationship", var1 |-> var1, var2 |-> var2,
                     out |-> <<>>, table |-> NoTable]
    /\ UNCHANGED <<df, p_in, label, text_result, rating_questions, yes_no_questions, categorical_questions,
                   text_questions, passes, aq, built, key_questions, result>>

NextMaternity ==
    \/ MaternityAnalyzerInit
    \/ AnalyzeEducationVsSatisfaction
    \/ AnalyzeMentalHealthVsFutureChildren
    \/ AnalyzeSupportVsMentalHealth
    \/ KeyRelationshipButton

SpecMaternity == InitMaternity /\ [][NextMaternity]_vars

(***************************************************************************)
(* The labelling code applied to a p-value: _interpret_p_value itself and  *)
(* the expression that fills 'interpretation' in                           *)
(* analyze_mental_health_vs_future_children                                *)
(***************************************************************************)
\* the fractions n/PDen of [0, 1]
PValues == {Rat(n, PDen) : n \in 0..PDen}

InitInterpret ==
    /\ df = MakeDf(<<>>, <<>>)
    /\ rating_questions = <<>>
    /\ yes_no_questions = <<>>
    /\ categorical_questions = <<>>
    /\ text_questions = <<>>
    /\ passes = 0
    /\ aq = NotRun
    /\ built = FALSE
    /\ key_questions = NotBuilt
    /\ result = NoResult
    /\ ui = NoUi
    /\ p_in \in PValues \cup {NoneNumber}
    /\ label = NoLabel
    /\ text_result = NoTextResult

\* self._interpret_p_value(p_value)
InterpretPValue ==
    /\ label' = [by |-> "_interpret_p_value", text |-> interpret_p_value(p_in)]
    /\ UNCHANGED <<df, p_in, text_result, rating_questions, yes_no_questions,
                   categorical_questions, text_questions, passes, aq, built,
                   key_questions, result, ui>>

\* self._interpret_p_value(p_value) if p_value else "Insufficient data ..."
ReturnMentalInterpretation ==
    /\ label' = [by |-> "analyze_mental_health_vs_future_children",
                 text |-> MentalInterpretation(p_in)]
    /\ UNCHANGED <<df, p_in, text_result, rating_questions, yes_no_questions,
                   categorical_questions, text_questions, passes, aq, built,
                   key_questions, result, ui>>

NextInterpret ==
    \/ InterpretPValue
    \/ ReturnMentalInterpretation

SpecInterpret == InitInterpret /\ [][NextInterpret]_vars

(***************************************************************************)
(* survey_analyzer.py: SurveyAnalyzer.analyze_text_responses               *)
(***************************************************************************)
\* what the pattern \w matches: a letter, a digit or the underscore
IsWordChar(c) == InSeq(c, UpperChars) \/ InSeq(c, LowerChars) \/ InSeq(c, DigitChars) \/ c = "_"
\* what the pattern \s matches
Whitespace == {" ", "\t", "\n"}

\* " ".join(texts)
RECURSIVE JoinFrom(_, _)
JoinFrom(texts, i) ==
    IF i > Len(texts) THEN <<>>
    ELSE IF i = Len(texts) THEN texts[i]
    ELSE texts[i] \o <<" ">> \o JoinFrom(texts, i + 1)
Join(texts) == JoinFrom(texts, 1)

\* re.sub(r'[^\w\s]', ' ', text)
sub_non_word(text) ==
    [i \in DOMAIN text |->
        IF IsWordChar(text[i]) \/ text[i] \in Whitespace THEN text[i] ELSE " "]

\* re.sub(r'\s+', ' ', text): every maximal run of whitespace becomes one
\* space, put where the run begins
sub_whitespace(text) ==
    LET kept == SelectSeq([i \in DOMAIN text |-> i],
                          LAMBDA i : \/ text[i] \notin Whitespace
                                     \/ i = 1
                                     \/ text[i - 1] \notin Whitespace)
    IN  [j \in DOMAIN kept |->
            IF text[kept[j]] \in Whitespace THEN " " ELSE text[kept[j]]]

\* the text handed to WordCloud.generate
cleaned_text_of(cells) ==
    LET text_data == dropna(cells)
        all_text == Join([i \in DOMAIN text_data |-> TextOfCell(text_data[i], cells)])
    IN  sub_whitespace(sub_non_word(lower(all_text)))

CountIs(n) == [none |-> FALSE, n |-> n]

\* the pair the method returns; generated tells whether the word cloud and
\* its image were produced or the bare except caught a failure
analyze_text_responses_mut(text_column, cells, generated) ==
    IF Len(dropna(cells)) = 0
    THEN [column |-> text_column, image |-> "None", count |-> NoCount, cleaned_text |-> <<>>]
    ELSE [column |-> text_column,
          image |-> IF generated THEN "BytesIO" ELSE "None",
          count |-> IF generated THEN CountIs(Len(dropna(cells))) ELSE NoCount,
          cleaned_text |-> cleaned_text_of(cells)]

analyze_text_responses(text_column, cells, generated) ==
    IF Len(dropna(cells)) = 0
    THEN [column |-> text_column, image |-> "None", count |-> NoCount, cleaned_text |-> <<>>]
    ELSE [column |-> text_column,
          image |-> IF generated THEN "BytesIO" ELSE "None",
          count |-> CountIs(Len(dropna(cells))),
          cleaned_text |-> cleaned_text_of(cells)]

\* analyzer.analyze_text_responses(text_column) on a question column.
\* WordCloud.generate raises when the text holds no word; whether it draws
\* a text that holds one is for the library to decide (stop words, numbers)
AnalyzeTextResponses ==
    /\ passes >= 1
    /\ \E i \in FirstQuestion..Len(df.columns), generated \in BOOLEAN :
          LET cells == df.data[df.columns[i]]
              t == cleaned_text_of(cells)
          IN  /\ generated => \E j \in DOMAIN t : IsWordChar(t[j])
              /\ text_result' = analyze_text_responses(df.columns[i], cells, generated)
    /\ UNCHANGED <<df, p_in, label, rating_questions, yes_no_questions,
                   categorical_questions, text_questions, passes, aq, built,
                   key_questions, result, ui>>

\* the responses a text column is filled from
A_sentence == <<"G", "o", "o", "d", ",", " ", "g", "o", "o", "d", "!", " ",
                "V", "e", "r", "y", " ", "G", "O", "O", "D", ".">>
A_good == <<"G", "o", "o", "d", ",">>
A_under == <<"g", "o", "o", "d", "_">>
A_marks == <<"!", "?">>
A_tab == <<"v", "e", "r", "y", "\t", "\n", "G", "O", "O", "D">>
Responses == {Str(A_sentence), Str(A_good), Str(A_under), Str(A_marks),
              Str(A_tab), Num(5), NaN}

TextDatasets ==
    {MakeDf(<<Q(1)>>, <<c>>) :
        c \in UNION {[1..n -> Responses] : n \in 0..MaxResponses}}

InitText == df \in TextDatasets /\ InitRest

NextText ==
    \/ SurveyAnalyzerInit
    \/ AnalyzeTextResponses

SpecText == InitText /\ [][NextText]_vars

(***************************************************************************)
(* Both analyzers built on one loaded table, every method and handler of   *)
(* either free to run in any order                                         *)
(***************************************************************************)
\* two-question tables with missing cells, of fewer and of more than the
\* ten complete rows the cleaning analyses ask for
CoreDatasets ==
    {LET rows == PairRows(MaxMissing, MaxPairCount, n, n, 1)
     IN  MakeDf(hp, <<[i \in DOMAIN rows |-> rows[i][1]], [i \in DOMAIN rows |-> rows[i][2]]>>) :
        hp \in HeaderPairs, n \in {0, MaxPairCount}}

InitCore == df \in CoreDatasets /\ InitRest

NextCore ==
    \/ SurveyAnalyzerInit
    \/ CategorizeAgain
    \/ CrossAnalysisButton
    \/ AnalyzeTextResponses
    \/ MaternityAnalyzerInit
    \/ AnalyzeEducationVsSatisfaction
    \/ AnalyzeMentalHealthVsFutureChildren
    \/ AnalyzeSupportVsMentalHealth
    \/ KeyRelationshipButton

SpecCore == InitCore /\ [][NextCore]_vars

(***************************************************************************)
(* Vocabulary of the classification properties, stated over the cells of   *)
(* a column rather than through the classifier's own helpers               *)
(***************************************************************************)
QuestionColumns == {df.columns[i] : i \in 2..Len(df.columns)}

NonMissing(cells) == {i \in DOMAIN cells : cells[i].t # "nan"}

DistinctValues(cells) == {cells[i] : i \in NonMissing(cells)}

FirstIndex(cells, v) == CHOOSE i \in DOMAIN cells : cells[i] = v /\ \A j \in 1..(i - 1) : cells[j] # v

\* the values that are among the first five distinct non-missing values
EarlySamples(cells) ==
    {v \in DistinctValues(cells) :
        Cardinality({cells[j] : j \in {j \in NonMissing(cells) : j < FirstIndex(cells, v)}}) < 5}

TextOf(v, cells) == PyStr(v, IsFloatColumn(cells))

HasOneOrFive(cells) ==
    \E v \in EarlySamples(cells) :
        Contains(TextOf(v, cells), T_one) \/ Contains(TextOf(v, cells), T_five)

HasOneAndFive(cells) ==
    \E v \in EarlySamples(cells) :
        Contains(TextOf(v, cells), T_one) /\ Contains(TextOf(v, cells), T_five)

HasDaNe(cells) == \E v \in EarlySamples(cells) : v \in {Str(S_Da), Str(S_Ne)}

\* the headers recorded in one list of analyze_questions.py
ScriptCols(list) == {list[i][2] : i \in DOMAIN list}

Cells(col) == df.data[col]

(***************************************************************************)
(* C1: after SurveyAnalyzer's classification pass every column other than  *)
(* column 0 is in exactly one of the four lists, and column 0 is in none.  *)
(***************************************************************************)
ListsHolding(col) ==
    {name \in {"rating", "yes_no", "categorical", "text"} : InSeq(col, Lists[name])}

C1_ExactlyOneList ==
    passes >= 1 =>
        /\ \A i \in 2..Len(df.columns) : Cardinality(ListsHolding(df.columns[i])) = 1
        /\ Len(df.columns) >= 1 => ListsHolding(df.columns[1]) = {}

C1_Witness ==
    /\ passes = 1
    /\ Len(df.columns) = 3
    /\ ListsHolding(df.columns[2]) # ListsHolding(df.columns[3])

(***************************************************************************)
(* C2: SurveyAnalyzer files a column under rating_questions if and only if *)
(* one of its first 5 distinct non-missing values, as text, contains "1 =" *)
(* or "5 ="; the rule wins over the yes/no and categorical rules.          *)
(***************************************************************************)
C2_RatingIff ==
    passes >= 1 =>
        \A col \in QuestionColumns :
            InSeq(col, rating_questions) <=> HasOneOrFive(Cells(col))

C2_Witness ==
    /\ passes >= 1
    /\ \E col \in QuestionColumns :
          /\ InSeq(col, rating_questions)
          /\ Cardinality(DistinctValues(Cells(col))) <= 3
          /\ HasDaNe(Cells(col))
          /\ ~HasOneAndFive(Cells(col))

(***************************************************************************)
(* C3 as stated: every column with 3 or fewer distinct non-missing values  *)
(* that include 'Da' or 'Ne' is classified yes/no, never categorical.      *)
(***************************************************************************)
YesNoShaped(col) ==
    Cardinality(DistinctValues(Cells(col))) <= 3 /\ HasDaNe(Cells(col))

C3_Original ==
    \A col \in QuestionColumns :
        YesNoShaped(col) =>
            /\ passes >= 1 =>
                  InSeq(col, yes_no_questions) /\ ~InSeq(col, categorical_questions)
            /\ aq.ran =>
                  col \in ScriptCols(aq.lists.yes_no)
                      /\ col \notin ScriptCols(aq.lists.categorical)

(***************************************************************************)
(* C3 amended: such a column is never classified categorical or free-text; *)
(* it is yes/no unless the classifier's rating rule matches first          *)
(* (SurveyAnalyzer: a sample value with "1 =" or "5 ="; analyze_questions: *)
(* a sample value with both), and then it is rating-scale.                 *)
(***************************************************************************)
C3_YesNoUnlessRating ==
    \A col \in QuestionColumns :
        YesNoShaped(col) =>
            /\ passes >= 1 =>
                  /\ ~InSeq(col, categorical_questions)
                  /\ ~InSeq(col, text_questions)
                  /\ InSeq(col, yes_no_questions) <=> ~HasOneOrFive(Cells(col))
                  /\ InSeq(col, rating_questions) <=> HasOneOrFive(Cells(col))
            /\ aq.ran =>
                  /\ col \notin ScriptCols(aq.lists.categorical)
                  /\ col \notin ScriptCols(aq.lists.text)
                  /\ col \in ScriptCols(aq.lists.yes_no) <=> ~HasOneAndFive(Cells(col))
                  /\ col \in ScriptCols(aq.lists.rating) <=> HasOneAndFive(Cells(col))

C3_Witness ==
    /\ passes >= 1
    /\ aq.ran
    /\ \E col \in QuestionColumns :
          /\ YesNoShaped(col)
          /\ Cardinality(DistinctValues(Cells(col))) = 3
          /\ InSeq(col, yes_no_questions)
          /\ col \in ScriptCols(aq.lists.yes_no)

(***************************************************************************)
(* C4: a column matching neither the rating rule nor the yes/no rule is    *)
(* categorical exactly when it has 10 or fewer distinct non-missing values *)
(* and free-text exactly when it has more; an all-missing column is        *)
(* categorical.  Stated for both classifiers.                              *)
(***************************************************************************)
C4_CategoricalOrText ==
    \A col \in QuestionColumns :
        LET n == Cardinality(DistinctValues(Cells(col)))
        IN  /\ (passes >= 1 /\ ~HasOneOrFive(Cells(col)) /\ ~YesNoShaped(col)) =>
                  /\ InSeq(col, categorical_questions) <=> n <= 10
                  /\ InSeq(col, text_questions) <=> n > 10
            /\ (aq.ran /\ ~HasOneAndFive(Cells(col)) /\ ~YesNoShaped(col)) =>
                  /\ col \in ScriptCols(aq.lists.categorical) <=> n <= 10
                  /\ col \in ScriptCols(aq.lists.text) <=> n > 10
            /\ (passes >= 1 /\ n = 0) => InSeq(col, categorical_questions)
            /\ (aq.ran /\ n = 0) => col \in ScriptCols(aq.lists.categorical)

C4_Witness ==
    /\ passes >= 1
    /\ aq.ran
    /\ \E c10 \in QuestionColumns, c11 \in QuestionColumns :
          /\ Cardinality(DistinctValues(Cells(c10))) = 10
          /\ Cardinality(DistinctValues(Cells(c11))) = 11
          /\ InSeq(c10, categorical_questions)
          /\ InSeq(c11, text_questions)
          /\ c10 \in ScriptCols(aq.lists.categorical)
          /\ c11 \in ScriptCols(aq.lists.text)

(***************************************************************************)
(* C5: a second _categorize_questions pass over the unchanged dataset      *)
(* leaves the four category lists as they were after the first pass.       *)
(***************************************************************************)
C5_Idempotent ==
    [][(passes >= 1 /\ passes' = passes + 1 /\ df' = df) =>
          /\ rating_questions' = rating_questions
          /\ yes_no_questions' = yes_no_questions
          /\ categorical_questions' = categorical_questions
          /\ text_questions' = text_questions]_vars

(***************************************************************************)
(* Vocabulary of the key-question properties                               *)
(***************************************************************************)
\* the roles whose keyword predicate each header of the datasets satisfies
RolesOf == [h \in HeaderPool \cup {H_ts} |-> {role \in Roles : RolePredicate(role, h)}]

Satisfying(role) == {i \in DOMAIN df.columns : role \in RolesOf[df.columns[i]]}

FirstSatisfying(role) ==
    df.columns[CHOOSE i \in Satisfying(role) : \A j \in Satisfying(role) : i <= j]

LastSatisfying(role) ==
    df.columns[CHOOSE i \in Satisfying(role) : \A j \in Satisfying(role) : i >= j]

\* the roles bound inside the loop over the headers
LoopRoles == {"anxiety_during_birth", "postpartum_depression", "mental_health_support"}

\* what scanning the headers for this role alone would bind
AloneBinding(role) ==
    IF Satisfying(role) = {} THEN None
    ELSE IF role \in LoopRoles THEN LastSatisfying(role)
    ELSE FirstSatisfying(role)

(***************************************************************************)
(* C6: each of the seven roles is bound to the first header, in column     *)
(* order, that satisfies the role's keyword predicate; a later header that *)
(* also satisfies it never replaces that binding.  Stated over the tables  *)
(* in which no header satisfies the predicates of two roles, so that the   *)
(* order of binding is the only thing in play.                             *)
(***************************************************************************)
NoSharedHeader ==
    \A r1 \in Roles, r2 \in Roles : r1 # r2 => Satisfying(r1) \cap Satisfying(r2) = {}

C6_FirstMatchWins ==
    (built /\ NoSharedHeader) =>
        \A role \in Roles :
            Satisfying(role) # {} =>
                role \in DOMAIN key_questions /\ key_questions[role] = FirstSatisfying(role)

(***************************************************************************)
(* C7: each role is evaluated independently of the others: the binding of  *)
(* a role is what scanning the headers for that role alone yields, whether *)
(* or not a header also satisfies another role's predicate.                *)
(***************************************************************************)
C7_RolesIndependent ==
    built =>
        \A role \in Roles :
            role \in DOMAIN key_questions /\ key_questions[role] = AloneBinding(role)

C9_SelfCrossRejected ==
    (ui.handler \in {"cross", "relationship"} /\ ui.var1 = ui.var2) =>
        /\ InSeq("warning", ui.out) \/ InSeq("error", ui.out)
        /\ ui.table = NoTable

(***************************************************************************)
(* C10: the 'crosstab' returned by a relationship analysis has cells that  *)
(* sum to the number of rows in which both compared columns are present,   *)
(* and each cell is the count of such rows with that pair of values.       *)
(***************************************************************************)
ComparedRoles(call) ==
    CASE call = "analyze_education_vs_satisfaction" -> <<"education", "birth_satisfaction">>
      [] call = "analyze_mental_health_vs_future_children" ->
             <<"postpartum_depression", "future_children_desire">>
      [] call = "analyze_support_vs_mental_health" -> <<"partner_support", "anxiety_during_birth">>

C10_CellsArePairCounts ==
    result.kind = "dict" =>
        LET roles == ComparedRoles(result.call)
            a == df.data[key_questions[roles[1]]]
            b == df.data[key_questions[roles[2]]]
            both == {i \in DOMAIN a : a[i].t # "nan" /\ b[i].t # "nan"}
            t == result.crosstab
        IN  /\ SumCells(t.cell, DOMAIN t.cell) = Cardinality(both)
            /\ \A k \in DOMAIN t.cell :
                  t.cell[k] = Cardinality({i \in both : a[i] = k[1] /\ b[i] = k[2]})

(***************************************************************************)
(* Vocabulary of the relationship properties, stated over the cells of the *)
(* two compared columns                                                    *)
(***************************************************************************)
\* the rows in which both columns hold a value
BothPresent(a, b) == {i \in DOMAIN a : a[i].t # "nan" /\ b[i].t # "nan"}
ObservedIn(a, b) == {a[i] : i \in BothPresent(a, b)}
CountOf(a, b, x, y) == Cardinality({i \in BothPresent(a, b) : a[i] = x /\ b[i] = y})
RowsOf(a, b, x) == Cardinality({i \in BothPresent(a, b) : a[i] = x})

RolesBound(call) ==
    \A i \in 1..2 :
        /\ ComparedRoles(call)[i] \in DOMAIN key_questions
        /\ key_questions[ComparedRoles(call)[i]] \in QuestionColumns

FirstColumn(call) == df.data[key_questions[ComparedRoles(call)[1]]]
SecondColumn(call) == df.data[key_questions[ComparedRoles(call)[2]]]

\* the last method call compared its two columns
Compared == result.call # "none" /\ RolesBound(result.call)

(***************************************************************************)
(* C11: whenever fewer than 10 rows hold both compared columns, each of    *)
(* the three relationship analyses returns its insufficient-data outcome   *)
(* (None) with no chi-square statistic or p-value, and the ad hoc          *)
(* key-relationship analysis writes no significance result either.         *)
(***************************************************************************)
C11_FewRowsInsufficient ==
    /\ (Compared /\ Cardinality(BothPresent(FirstColumn(result.call),
                                              SecondColumn(result.call))) < 10) =>
           /\ result.kind = "None"
           /\ result.chi2.none /\ result.p_value.none
    /\ (/\ ui.handler = "relationship"
        /\ ui.var1 # ui.var2
        /\ Cardinality(BothPresent(df.data[ui.var1], df.data[ui.var2])) < 10) =>
           ~InSeq("write", ui.out)

(***************************************************************************)
(* C12: whenever the table of observed value pairs of a relationship       *)
(* analysis has fewer than 2 rows or fewer than 2 columns, no test is run  *)
(* and the returned chi2 and p_value are None, in all three analyses.      *)
(***************************************************************************)
C12_DegenerateIsNone ==
    (/\ Compared
     /\ result.kind = "dict"
     /\ \/ Cardinality(ObservedIn(FirstColumn(result.call), SecondColumn(result.call))) < 2
        \/ Cardinality(ObservedIn(SecondColumn(result.call), FirstColumn(result.call))) < 2) =>
        /\ result.stat = "None"
        /\ result.chi2.none /\ result.p_value.none

(***************************************************************************)
(* C13: _interpret_p_value gives every p in [0, 1] the label of its band:  *)
(* p < 0.001 very strong, 0.001 <= p < 0.01 strong, 0.01 <= p < 0.05       *)
(* significant, 0.05 <= p < 0.10 marginal trend, p >= 0.10 no significant  *)
(* relationship; a p-value equal to a cut point gets the weaker label.     *)
(***************************************************************************)
C13_LabelByCutPoints ==
    (label.by = "_interpret_p_value" /\ ~p_in.none) =>
        LET n == p_in.num
            d == p_in.den
        IN  /\ (1000 * n < d) <=>
                   label.text = "Very strong statistical relationship (p < 0.001)"
            /\ (1000 * n >= d /\ 100 * n < d) <=>
                   label.text = "Strong statistical relationship (p < 0.01)"
            /\ (100 * n >= d /\ 100 * n < 5 * d) <=>
                   label.text = "Statistically significant relationship (p < 0.05)"
            /\ (100 * n >= 5 * d /\ 10 * n < d) <=>
                   label.text = "Marginally significant trend (p < 0.1)"
            /\ (10 * n >= d) <=>
                   label.text = "No significant statistical relationship found"

\* the labelling has been applied to a p-value that equals a cut point
C13_Witness ==
    /\ label.by = "_interpret_p_value"
    /\ ~p_in.none
    /\ 1000 * p_in.num = p_in.den
    /\ label.text = "Strong statistical relationship (p < 0.01)"

(***************************************************************************)
(* C14: for every table of at least 2 rows and 2 columns the reported      *)
(* chi-square statistic is the Pearson sum over the cells of               *)
(* (observed - expected)^2 / expected, expected being row total * column   *)
(* total / grand total, with (rows - 1) * (columns - 1) degrees of         *)
(* freedom and no other adjustment.                                        *)
(***************************************************************************)
RECURSIVE SumOf(_, _)
SumOf(f, S) == IF S = {} THEN 0 ELSE LET k == CHOOSE k \in S : TRUE IN f[k] + SumOf(f, S \ {k})
RECURSIVE ProductOf(_, _)
ProductOf(f, S) == IF S = {} THEN 1 ELSE LET k == CHOOSE k \in S : TRUE IN f[k] * ProductOf(f, S \ {k})

\* the sum of (O - rc/N)^2 / (rc/N) = (ON - rc)^2 / (Nrc) over the cells,
\* brought to the denominator N * (product of row totals) * (product of
\* column totals), in lowest terms
PearsonSum(a, b) ==
    LET xs == ObservedIn(a, b)
        ys == ObservedIn(b, a)
        N == Cardinality(BothPresent(a, b))
        r == [x \in xs |-> RowsOf(a, b, x)]
        c == [y \in ys |-> RowsOf(b, a, y)]
        R == ProductOf(r, xs)
        C == ProductOf(c, ys)
        sq(n) == n * n
        part == [k \in xs \X ys |->
                   sq(CountOf(a, b, k[1], k[2]) * N - r[k[1]] * c[k[2]])
                       * (R \div r[k[1]]) * (C \div c[k[2]])]
        num == SumOf(part, xs \X ys)
        den == N * R * C
        g == Gcd(num, den)
    IN  [none |-> FALSE, num |-> num \div g, den |-> den \div g]

C14_PearsonStatistic ==
    (/\ Compared
     /\ result.kind = "dict"
     /\ Cardinality(ObservedIn(FirstColumn(result.call), SecondColumn(result.call))) >= 2
     /\ Cardinality(ObservedIn(SecondColumn(result.call), FirstColumn(result.call))) >= 2) =>
        LET a == FirstColumn(result.call)
            b == SecondColumn(result.call)
        IN  /\ result.chi2 = PearsonSum(a, b)
            /\ result.dof = (Cardinality(ObservedIn(a, b)) - 1) * (Cardinality(ObservedIn(b, a)) - 1)

(***************************************************************************)
(* C15: on a table of 20 complete rows in which the first column has two   *)
(* observed values and fully determines the second (a different second     *)
(* value for each), whatever the split of the rows between the two values, *)
(* the analysis returns a p-value below 0.001 and the very strong label.   *)
(***************************************************************************)
C15_DeterminedIsVeryStrong ==
    (/\ Compared
     /\ result.kind \in {"dict", "None"}
     /\ LET a == FirstColumn(result.call)
            b == SecondColumn(result.call)
        IN  /\ Len(a) = 20
            /\ Cardinality(BothPresent(a, b)) = 20
            /\ Cardinality(ObservedIn(a, b)) = 2
            /\ \A i, j \in DOMAIN a : (a[i] = a[j]) <=> (b[i] = b[j])) =>
        /\ result.kind = "dict"
        /\ ~result.p_value.none
        /\ 1000 * result.p_value.num < result.p_value.den
        /\ result.interpretation = "Very strong statistical relationship (p < 0.001)"

(***************************************************************************)
(* C19: whenever analyze_mental_health_vs_future_children has computed a   *)
(* p-value, the interpretation it returns is the label _interpret_p_value  *)
(* gives that p-value, for every p in [0, 1]; the insufficient-data text   *)
(* is returned only when no p-value was computed.                          *)
(***************************************************************************)
C19_LabelOfComputedP ==
    (label.by = "analyze_mental_health_vs_future_children" /\ ~p_in.none) =>
        /\ label.text = interpret_p_value(p_in)
        /\ label.text # "Insufficient data for statistical analysis"

(***************************************************************************)
(* C20: the percentage table of a relationship analysis, and the           *)
(* percentage data it plots, have exactly the observed values of the first *)
(* column as row keys and those of the second as column keys; each cell    *)
(* is 100 * cell count / row total, so every row sums to 100.              *)
(***************************************************************************)
IsRowPercentages(t, a, b) ==
    /\ SeqToSet(t.index) = ObservedIn(a, b)
    /\ SeqToSet(t.columns) = ObservedIn(b, a)
    /\ DOMAIN t.cell = ObservedIn(a, b) \X ObservedIn(b, a)
    /\ \A k \in DOMAIN t.cell :
          t.cell[k][1] * RowsOf(a, b, k[1]) = 100 * CountOf(a, b, k[1], k[2]) * t.cell[k][2]
    /\ \A x \in SeqToSet(t.index) :
          LET row == [y \in SeqToSet(t.columns) |-> t.cell[<<x, y>>][1]]
          IN  /\ \A y \in DOMAIN row : t.cell[<<x, y>>][2] = RowsOf(a, b, x)
              /\ SumOf(row, DOMAIN row) = 100 * RowsOf(a, b, x)

C20_PercentagesKeepKeys ==
    (Compared /\ result.kind = "dict") =>
        /\ IsRowPercentages(result.pct, FirstColumn(result.call), SecondColumn(result.call))
        /\ IsRowPercentages(result.figure, FirstColumn(result.call), SecondColumn(result.call))

(***************************************************************************)
(* Vocabulary of the text properties                                       *)
(***************************************************************************)
LowerAlnum ==
    {"a", "b", "c", "d", "e", "f", "g", "h", "i", "j", "k", "l", "m", "n", "o",
     "p", "q", "r", "s", "t", "u", "v", "w", "x", "y", "z", "dj", "sh", "cj",
     "0", "1", "2", "3", "4", "5", "6", "7", "8", "9"}

\* the tokens of a text: its maximal runs of characters other than the space
RECURSIVE TokensFrom(_, _, _)
TokensFrom(text, i, word) ==
    IF i > Len(text) THEN (IF word = <<>> THEN <<>> ELSE <<word>>)
    ELSE IF text[i] = " "
         THEN (IF word = <<>> THEN <<>> ELSE <<word>>) \o TokensFrom(text, i + 1, <<>>)
         ELSE TokensFrom(text, i + 1, Append(word, text[i]))
TokenCount(text, word) ==
    LET ts == TokensFrom(text, 1, <<>>)
    IN  Cardinality({i \in DOMAIN ts : ts[i] = word})

\* a text analysis has returned for a column with responses
TextAnalysed == text_result.image # "none" /\ NonMissing(df.data[text_result.column]) # {}

(***************************************************************************)
(* C16: the text handed on for counting holds only lowercase alphanumeric  *)
(* characters and single spaces between tokens (every other character has  *)
(* become a space and runs of whitespace one space), and the response      *)
(* "Good, good! Very GOOD." gives the token good 3 times and very once.    *)
(***************************************************************************)
C16_CleanedText ==
    TextAnalysed =>
        LET t == text_result.cleaned_text
            cells == df.data[text_result.column]
        IN  /\ \A i \in DOMAIN t : t[i] \in LowerAlnum \cup {" "}
            /\ \A i \in 1..(Len(t) - 1) : ~(t[i] = " " /\ t[i + 1] = " ")
            /\ (Len(cells) = 1 /\ cells[1] = Str(A_sentence)) =>
                   /\ TokenCount(t, <<"g", "o", "o", "d">>) = 3
                   /\ TokenCount(t, <<"v", "e", "r", "y">>) = 1
                   /\ Len(TokensFrom(t, 1, <<>>)) = 4

(***************************************************************************)
(* C17: analyze_text_responses returns (None, None) exactly when the       *)
(* column has no non-missing value; otherwise every outcome, a failed      *)
(* word cloud included, carries the positive count of non-missing values.  *)
(***************************************************************************)
C17_EmptyIffNoResponses ==
    text_result.image # "none" =>
        LET n == Cardinality(NonMissing(df.data[text_result.column]))
        IN  /\ (text_result.image = "None" /\ text_result.count.none) <=> (n = 0)
            /\ (n > 0) => (~text_result.count.none /\ text_result.count.n = n)

\* a failed word cloud on a column with responses
C17_Witness ==
    /\ text_result.image = "None"
    /\ ~text_result.count.none
    /\ text_result.count.n >= 1
    /\ \E i \in DOMAIN df.data[text_result.column] : df.data[text_result.column][i].t = "nan"

(***************************************************************************)
(* C18: no operation of either analyzer changes the loaded table: across   *)
(* classification, key-question location, relationship analyses and text   *)
(* analyses the table keeps its columns, row order and cell values.        *)
(***************************************************************************)
C18_TableUnchanged == [][df' = df]_vars

\* every kind of operation has run on a table with missing cells, the last
\* of them an analysis that cleans its two columns
C18_Witness ==
    /\ passes >= 2
    /\ built
    /\ text_result.image # "none"
    /\ ui.handler = "relationship"
    /\ result.call = "analyze_support_vs_mental_health"
    /\ result.kind = "dict"
    /\ \E h \in QuestionColumns : \E i \in DOMAIN df.data[h] : df.data[h][i].t = "nan"

(***************************************************************************)
(* C21: the script's classification refines the analyzer's: a column the   *)
(* script files as rating-scale is rating-scale for SurveyAnalyzer too; a  *)
(* column none of whose first 5 distinct values contains "1 =" or "5 ="    *)
(* gets the same category from both; and the two differ only on a column   *)
(* one of whose sample values contains exactly one of the two tokens.      *)
(***************************************************************************)
ScriptHolding(col) ==
    {name \in {"rating", "yes_no", "categorical", "text"} :
        col \in ScriptCols(aq.lists[name])}

HasExactlyOneToken(cells) ==
    \E v \in EarlySamples(cells) :
        Contains(TextOf(v, cells), T_one) # Contains(TextOf(v, cells), T_five)

C21_ScriptRefinesAnalyzer ==
    (passes >= 1 /\ aq.ran) =>
        \A col \in QuestionColumns :
            /\ "rating" \in ScriptHolding(col) => "rating" \in ListsHolding(col)
            /\ ~HasOneOrFive(Cells(col)) => ScriptHolding(col) = ListsHolding(col)
            /\ ScriptHolding(col) # ListsHolding(col) => HasExactlyOneToken(Cells(col))

\* both classifiers have run on a table with a column they file differently
\* and a column without either token
C21_Witness ==
    /\ passes >= 1
    /\ aq.ran
    /\ \E col \in QuestionColumns :
          /\ ScriptHolding(col) # ListsHolding(col)
          /\ HasExactlyOneToken(Cells(col))
    /\ \E col \in QuestionColumns :
          /\ ~HasOneOrFive(Cells(col))
          /\ ScriptHolding(col) = ListsHolding(col)

====
